---------------------------- MODULE Spec2Model ----------------------------
(***************************************************************************)
(* Model of scripts/pack.py and scripts/unpack.py: the conversion of an    *)
(* audio dataset between its FLAT layout (metadata.csv + wavs/) and its    *)
(* PARTITIONED layout (metadata/*.parquet + audio/<source>/<speaker>/      *)
(* <batch>/).                                                              *)
(*                                                                         *)
(* Strings are sequences of one-character strings, so that sanitise, the   *)
(* "batch_%04d" formatting, int() parsing, Path.name and str.contains are  *)
(* computed character by character as the code computes them.  Python's    *)
(* None and "" are both falsy in every test the code makes of them         *)
(* (`if exact_batch`, `if speaker`, ...), and are both modelled as <<>>.   *)
(***************************************************************************)
EXTENDS Integers, Sequences, FiniteSets, TLC

\* ------------------------------------------------------------------ bounds

\* Longest metadata.csv (rows) of the flat source.
MaxTableLen == 2
\* Number of pack/unpack invocations in one behaviour.
MaxRuns == 2
\* Largest --max-rows argument tried (the smallest is 1).
MaxRowsArg == 2

\* ----------------------------------------------------------------- strings

\* The characters of the model in code-point order (Python compares strings,
\* and pandas sorts group keys, by code point).
CodePoints ==
  << " ", "-", "/", "0", "1", "2", "3", "4", "5", "6", "7", "8", "9",
     "A", "B", "C", "X", "_", "a", "b", "c", "d", "f", "g", "h", "i", "o",
     "t", "u", "w", "x" >>

Ord(c) == CHOOSE i \in 1..Len(CodePoints) : CodePoints[i] = c

Digits == << "0", "1", "2", "3", "4", "5", "6", "7", "8", "9" >>

IsDigit(c) == \E i \in 1..10 : Digits[i] = c

DigitVal(c) == (CHOOSE i \in 1..10 : Digits[i] = c) - 1

Uppers == << "A", "B", "C", "X" >>

Lowers == << "a", "b", "c", "x" >>

\* str.lower() on one character.
LowerChar(c) ==
  IF \E i \in 1..Len(Uppers) : Uppers[i] = c
    THEN Lowers[CHOOSE i \in 1..Len(Uppers) : Uppers[i] = c]
    ELSE c

\* str.lower()
Lower(s) == [i \in 1..Len(s) |-> LowerChar(s[i])]

\* str.replace(a, b) for one-character a and b.
Replace(s, a, b) == [i \in 1..Len(s) |-> IF s[i] = a THEN b ELSE s[i]]

\* str.strip(): leading and trailing whitespace removed.
Strip(s) ==
  LET keep == {i \in 1..Len(s) : s[i] # " "}
  IN IF keep = {} THEN <<>>
     ELSE LET lo == CHOOSE i \in keep : \A j \in keep : i <= j
              hi == CHOOSE i \in keep : \A j \in keep : j <= i
          IN SubSeq(s, lo, hi)

\* pack.py sanitise(): directory-name-safe form of a raw value.
sanitise(value) == Replace(Replace(Lower(Strip(value)), " ", "_"), "/", "-")

\* Python's < on strings: lexicographic by code point.
StrLess(s, t) ==
  \E k \in 0..Len(s) :
    /\ k <= Len(t)
    /\ \A i \in 1..k : s[i] = t[i]
    /\ \/ k = Len(s) /\ k < Len(t)
       \/ k < Len(s) /\ k < Len(t) /\ Ord(s[k + 1]) < Ord(t[k + 1])

\* str.startswith
StartsWith(s, p) == Len(p) <= Len(s) /\ SubSeq(s, 1, Len(p)) = p

\* `needle in s` / Series.str.contains(needle, regex=False)
Contains(s, needle) ==
  \E i \in 1..(Len(s) - Len(needle) + 1) :
    SubSeq(s, i, i + Len(needle) - 1) = needle

\* str.split(sep) for a one-character sep: the list of segments.
RECURSIVE Split(_, _)
Split(s, sep) ==
  IF \A i \in 1..Len(s) : s[i] # sep THEN << s >>
  ELSE LET k == CHOOSE i \in 1..Len(s) :
                   s[i] = sep /\ \A j \in 1..(i - 1) : s[j] # sep
       IN << SubSeq(s, 1, k - 1) >> \o Split(SubSeq(s, k + 1, Len(s)), sep)

\* sep.join(segments)
RECURSIVE Join(_, _)
Join(segs, sep) ==
  IF Len(segs) = 0 THEN <<>>
  ELSE IF Len(segs) = 1 THEN segs[1]
  ELSE segs[1] \o << sep >> \o Join(Tail(segs), sep)

\* pathlib: the parts of a relative path (empty segments are dropped).
PathParts(p) == SelectSeq(Split(p, "/"), LAMBDA seg : seg # <<>>)

\* pathlib Path(p).name: the last part ("" when there is none).
PathName(p) ==
  LET parts == PathParts(p)
  IN IF Len(parts) = 0 THEN <<>> ELSE parts[Len(parts)]

\* int(s) for the strings the model meets: decimal digits only; anything
\* else (the empty string included) raises ValueError, given as -1.
RECURSIVE DigitsValue(_)
DigitsValue(s) ==
  IF Len(s) = 0 THEN 0
  ELSE 10 * DigitsValue(SubSeq(s, 1, Len(s) - 1)) + DigitVal(s[Len(s)])

ParseInt(s) ==
  IF Len(s) > 0 /\ \A i \in 1..Len(s) : IsDigit(s[i])
    THEN DigitsValue(s) ELSE -1

\* str(n) for n >= 0
RECURSIVE IntToStr(_)
IntToStr(n) ==
  IF n < 10 THEN << Digits[n + 1] >>
  ELSE IntToStr(n \div 10) \o << Digits[(n % 10) + 1] >>

\* f"{n:04d}": zero-padded to at least four digits.
RECURSIVE PadZero(_, _)
PadZero(s, width) == IF Len(s) >= width THEN s ELSE PadZero(<< "0" >> \o s, width)

\* f"batch_{n:04d}"
BatchLabel(n) == << "b", "a", "t", "c", "h", "_" >> \o PadZero(IntToStr(n), 4)

\* ------------------------------------------------------------- input sets

NoneStr == <<>>

\* Raw (audio_source, speaker) values of the flat metadata.csv.  "B" and "b"
\* sanitise to the same segment; ("a_b", "c") and ("a", "b_c") are distinct
\* partitions whose shard names coincide.
RawKeys ==
  { << << "a" >>, << "B" >> >>,
    << << "a" >>, << "b" >> >>,
    << << "a" >>, << "b", "_", "c" >> >>,
    << << "a", "_", "b" >>, << "c" >> >> }

\* The wav file the i-th row of a flat metadata.csv refers to: every row has
\* a file of its own.
WavName(i) == << "f" >> \o IntToStr(i)

\* The audio_path of the i-th row: with a directory prefix ("w/f1") in the
\* odd rows, a bare file name ("f2") in the even ones.
FlatPath(i) == IF i % 2 = 1 THEN << "w", "/" >> \o WavName(i) ELSE WavName(i)

\* The flat table whose i-th row belongs to group keys[i].
FlatTable(keys) ==
  [i \in 1..Len(keys) |->
     [audio_path |-> FlatPath(i), audio_source |-> keys[i][1], speaker |-> keys[i][2]]]

SeqsUpTo(S, n) == UNION { [1..k -> S] : k \in 0..n }

\* A well-formed flat root: its table, and the wavs of `have` (row numbers).
GoodSource(keys, have) ==
  [csv |-> TRUE, cols |-> TRUE, wavsDir |-> TRUE, table |-> FlatTable(keys),
   wavs |-> { WavName(i) : i \in have }]

\* The flat source roots a run may be given: metadata.csv missing, a
\* required column missing, wavs/ missing, or a well-formed root with any of
\* the wavs its rows refer to.
Sources ==
  { [csv |-> FALSE, cols |-> FALSE, wavsDir |-> TRUE, table |-> <<>>, wavs |-> {}],
    [csv |-> TRUE, cols |-> FALSE, wavsDir |-> TRUE, table |-> <<>>, wavs |-> {}] }
  \cup { [csv |-> TRUE, cols |-> TRUE, wavsDir |-> FALSE, table |-> FlatTable(k),
          wavs |-> {}] : k \in SeqsUpTo(RawKeys, 1) }
  \cup UNION { { GoodSource(k, have) : have \in SUBSET (1..Len(k)) } :
                 k \in SeqsUpTo(RawKeys, MaxTableLen) }

\* --batch labels given to pack: none, or a "batch_" label whose last segment
\* is no number.
PackBatchArgs == { NoneStr, << "b", "a", "t", "c", "h", "_", "x" >> }

\* ------------------------------------------------------------------ state

VARIABLES
  source,      \* the flat source root: metadata.csv and wavs/
  tree,        \* the partitioned root: metadata/ shards, audio/ directories and files
  flat,        \* the flat output root of unpack: metadata.csv and wavs/
  pc,          \* where the running invocation stands ("idle": none is running)
  run,         \* arguments and local variables of the running (or last) invocation
  plan,        \* what the invocation has logged or done so far, chunk by chunk
  prev,        \* the invocation before it: its arguments and its plan
  treeAtStart, \* tree as it was when the invocation began
  flatAtStart, \* flat as it was when the invocation began
  written,     \* every metadata shard written so far, with the invocation that wrote it
  nruns        \* invocations begun so far

vars == << source, tree, flat, pc, run, plan, prev, treeAtStart, flatAtStart,
           written, nruns >>

EmptyTree == [metaDir |-> FALSE, shards |-> << >>, dirs |-> {}, files |-> {}]

EmptyFlat == [dir |-> FALSE, wavsDir |-> FALSE, wavs |-> {}, hasCsv |-> FALSE, csv |-> <<>>]

NoRun ==
  [kind |-> "none", exit |-> "none", dry_run |-> FALSE,
   exact_batch |-> NoneStr, max_rows |-> 0,
   speaker |-> NoneStr, audio_source |-> NoneStr, batch |-> NoneStr,
   backwards |-> FALSE,
   groups |-> <<>>, gi |-> 0, chunks |-> <<>>, idx |-> 0,
   start_batch_num |-> 0,
   scans |-> <<>>,   \* the calls of get_next_batch_num so far: the partition
                     \* scanned, the number returned, the chunks done before
   moved |-> 0, skipped |-> 0,
   loaded |-> <<>>, df |-> <<>>, flat_audio_paths |-> <<>>,
   copied |-> 0, missing |-> 0]

NoPrev ==
  [kind |-> "none", exit |-> "none", dry_run |-> FALSE, args |-> <<>>, plan |-> <<>>]

Init ==
  /\ source \in Sources
  /\ tree = EmptyTree
  /\ flat = EmptyFlat
  /\ pc = "idle"
  /\ run = NoRun
  /\ plan = <<>>
  /\ prev = NoPrev
  /\ treeAtStart = tree
  /\ flatAtStart = flat
  /\ written = {}
  /\ nruns = 0

\* The inputs of an invocation besides its two roots and --dry-run: the CLI
\* arguments, and the order in which metadata/ lists its shards.
ArgsOf(r) ==
  << r.kind, r.exact_batch, r.max_rows, r.speaker, r.audio_source, r.batch,
     r.backwards >>

\* What is remembered of the invocation that ends when the next begins.
Summary ==
  [kind |-> run.kind, exit |-> run.exit, dry_run |-> run.dry_run,
   args |-> ArgsOf(run), plan |-> plan]

\* ------------------------------------------------------------------- pack

Min(a, b) == IF a < b THEN a ELSE b

MaxOf(S) == IF S = {} THEN 0 ELSE CHOOSE m \in S : \A n \in S : n <= m

\* load_metadata(): "missing" (no metadata.csv), "columns" (a required
\* column is missing) or "ok".
load_metadata(src) ==
  IF ~src.csv THEN "missing" ELSE IF ~src.cols THEN "columns" ELSE "ok"

\* Tuple order of the group keys (audio_source, speaker).
KeyLess(k1, k2) ==
  \/ StrLess(k1[1], k2[1])
  \/ k1[1] = k2[1] /\ StrLess(k1[2], k2[2])

RECURSIVE SortKeys(_)
SortKeys(S) ==
  IF S = {} THEN <<>>
  ELSE LET m == CHOOSE k \in S : \A o \in S \ {k} : KeyLess(k, o)
       IN << m >> \o SortKeys(S \ {m})

\* df.groupby(["audio_source", "speaker"]): the group keys in sorted order.
GroupKeys(df) ==
  SortKeys({ << df[i].audio_source, df[i].speaker >> : i \in 1..Len(df) })

\* The rows of one group, in the table's row order.
GroupRows(df, key) ==
  SelectSeq(df, LAMBDA r : << r.audio_source, r.speaker >> = key)

\* As AutoChunks, without the short chunk that ends a group.
AutoChunks_DropTail(group_df, max_rows) ==
  [k \in 1..(Len(group_df) \div max_rows) |->
     SubSeq(group_df, (k - 1) * max_rows + 1, k * max_rows)]

\* [group_df[i:i+max_rows] for i in range(0, len(group_df), max_rows)]
AutoChunks(group_df, max_rows) ==
  LET n == Len(group_df)
      count == (n + max_rows - 1) \div max_rows
  IN [k \in 1..count |->
        SubSeq(group_df, (k - 1) * max_rows + 1, Min(k * max_rows, n))]

\* The chunks of a group: the whole group under an explicit label.
ChunksOf(group_df, exact_batch, max_rows) ==
  IF exact_batch # NoneStr THEN << group_df >>
  ELSE AutoChunks(group_df, max_rows)

\* The names of the folders in output/audio/<audio_source>/<speaker>/.
FoldersIn(t, audio_source, speaker) ==
  { d[3] : d \in { e \in t.dirs : e[1] = audio_source /\ e[2] = speaker } }

\* int(folder.name.split("_")[-1]), -1 for ValueError.
FolderNum(name) ==
  LET segs == Split(name, "_") IN ParseInt(segs[Len(segs)])

\* get_next_batch_num(): 1 when the speaker directory does not exist, else
\* one more than the highest number among its "batch_*" folders.
get_next_batch_num(t, audio_source, speaker) ==
  LET folders == FoldersIn(t, audio_source, speaker)
  IN IF folders = {} THEN 1
     ELSE MaxOf({ FolderNum(f) :
                    f \in { g \in folders :
                              /\ StartsWith(g, << "b", "a", "t", "c", "h", "_" >>)
                              /\ FolderNum(g) >= 0 } }) + 1

\* f"audio/{audio_source}/{speaker}/{current_batch}/{wav_filename}"
NewRel(audio_source, speaker, current_batch, wav_filename) ==
  Join(<< << "a", "u", "d", "i", "o" >>, audio_source, speaker, current_batch,
          wav_filename >>, "/")

\* f"{audio_source}_{speaker}_{current_batch}.parquet" (the extension, common
\* to every shard, is left out).
ParquetName(audio_source, speaker, current_batch) ==
  Join(<< audio_source, speaker, current_batch >>, "_")

\* (wavs_dir / wav_filename).exists()
WavPresent(src, row) == PathName(row.audio_path) \in src.wavs

\* As MapRow, with the path rewritten whether or not the wav is present.
MapRow_AlwaysRewrite(src, row, audio_source, speaker, current_batch) ==
  [row EXCEPT !.audio_path =
     NewRel(audio_source, speaker, current_batch, PathName(row.audio_path))]

\* The row as written to the shard: audio_path rewritten when the wav is
\* present, the original reference kept when it is not.
MapRow(src, row, audio_source, speaker, current_batch) ==
  IF WavPresent(src, row)
    THEN [row EXCEPT !.audio_path =
            NewRel(audio_source, speaker, current_batch, PathName(row.audio_path))]
    ELSE row

CountIn(rows, Test(_)) == Len(SelectSeq(rows, Test))

\* One chunk as pack() maps it (lines 103-124, 136-139): the rows as written
\* to the shard, the wavs to copy and where.
ChunkEntry(src, key, chunk, current_batch) ==
  LET audio_source == sanitise(key[1])
      speaker == sanitise(key[2])
      here(row) == WavPresent(src, row)
      found == SelectSeq(chunk, here)
  IN [group |-> key, batch |-> current_batch,
      shard |-> ParquetName(audio_source, speaker, current_batch),
      orig |-> chunk,
      rows |-> [i \in 1..Len(chunk) |->
                  MapRow(src, chunk[i], audio_source, speaker, current_batch)],
      copies |-> [i \in 1..Len(found) |->
                    << PathName(found[i].audio_path),
                       NewRel(audio_source, speaker, current_batch,
                              PathName(found[i].audio_path)) >>]]

\* The output tree after a real run has materialised one chunk (lines
\* 129-130, 145): the batch directory is made when a first wav is copied
\* into it, every present wav is copied, the shard is written.
WriteChunk(t, entry) ==
  LET audio_source == sanitise(entry.group[1])
      speaker == sanitise(entry.group[2])
  IN [t EXCEPT
        !.dirs = IF Len(entry.copies) > 0
                   THEN t.dirs \cup { << audio_source, speaker, entry.batch >> }
                   ELSE t.dirs,
        !.files = t.files \cup
                    { << audio_source, speaker, entry.batch, entry.copies[i][1] >> :
                        i \in 1..Len(entry.copies) },
        !.shards = (entry.shard :> entry.rows) @@ t.shards]

\* current_batch of chunk idx (0-based) of a group (line 104).
CurrentBatch(exact_batch, start_batch_num, idx) ==
  IF exact_batch # NoneStr THEN exact_batch ELSE BatchLabel(start_batch_num + idx)

\* start_batch_num of a group (line 101).
StartBatchNum(t, exact_batch, audio_source, speaker) ==
  IF exact_batch = NoneStr THEN get_next_batch_num(t, audio_source, speaker) ELSE 0

\* pack(), lines 77-81: the pre-flight checks fail.
PackFatal(src) == load_metadata(src) # "ok" \/ ~src.wavsDir

\* As TreeAfterPackBegin, with metadata/ made before the pre-flight checks.
TreeAfterPackBegin_MkdirFirst(t, src, dry_run) ==
  IF dry_run THEN t ELSE [t EXCEPT !.metaDir = TRUE]

\* As TreeAfterPackBegin, with metadata/ made in a dry run too.
TreeAfterPackBegin_NoDryGuard(t, src, dry_run) ==
  IF PackFatal(src) THEN t ELSE [t EXCEPT !.metaDir = TRUE]

\* The output tree after pack()'s lines 77-85: untouched when a pre-flight
\* check exits or in a dry run, else with metadata/ made.
TreeAfterPackBegin(t, src, dry_run) ==
  IF PackFatal(src) \/ dry_run THEN t ELSE [t EXCEPT !.metaDir = TRUE]

\* pack(), lines 68-87: the pre-flight checks, then metadata/ is created.
PackBegin(exact_batch, max_rows, dry_run) ==
  /\ pc = "idle"
  /\ nruns' = nruns + 1
  /\ prev' = Summary
  /\ plan' = <<>>
  /\ treeAtStart' = tree
  /\ flatAtStart' = flat
  /\ LET r == [NoRun EXCEPT !.kind = "pack", !.exact_batch = exact_batch,
                            !.max_rows = max_rows, !.dry_run = dry_run]
     IN IF PackFatal(source)
          THEN /\ run' = [r EXCEPT !.exit = "fatal"]
               /\ pc' = "idle"
          ELSE /\ run' = [r EXCEPT !.exit = "running",
                                   !.loaded = source.table,
                                   !.groups = GroupKeys(source.table)]
               /\ pc' = "pack_groups"
  /\ tree' = TreeAfterPackBegin(tree, source, dry_run)
  /\ UNCHANGED << source, flat, written >>

\* As ScannedTree, with the listing taken once, before the run wrote.
ScannedTree_AtStart == treeAtStart

\* The output tree get_next_batch_num() lists (line 101, inside the loop over
\* the groups): the tree as it is when the group's turn comes.
ScannedTree == tree

\* pack(), lines 90-101: the next group is chunked and its start number is
\* read from the output tree.
PackGroup ==
  /\ pc = "pack_groups"
  /\ run.gi < Len(run.groups)
  /\ LET key == run.groups[run.gi + 1]
         audio_source == sanitise(key[1])
         speaker == sanitise(key[2])
         group_df == GroupRows(run.loaded, key)
         start == StartBatchNum(ScannedTree, run.exact_batch, audio_source, speaker)
     IN run' = [run EXCEPT
                  !.gi = run.gi + 1,
                  !.chunks = ChunksOf(group_df, run.exact_batch, run.max_rows),
                  !.idx = 0,
                  !.start_batch_num = start,
                  !.scans = IF run.exact_batch = NoneStr
                             THEN Append(run.scans,
                                         [dir |-> << audio_source, speaker >>,
                                          start |-> start,
                                          planned |-> Len(plan)])
                             ELSE run.scans]
  /\ pc' = "pack_chunks"
  /\ UNCHANGED << source, tree, flat, plan, prev, treeAtStart, flatAtStart,
                  written, nruns >>

\* pack(), lines 103-146: one chunk: its wavs are copied (or logged), then
\* its metadata shard is written (or logged).
PackChunk ==
  /\ pc = "pack_chunks"
  /\ run.idx < Len(run.chunks)
  /\ LET key == run.groups[run.gi]
         chunk == run.chunks[run.idx + 1]
         current_batch == CurrentBatch(run.exact_batch, run.start_batch_num, run.idx)
         entry == ChunkEntry(source, key, chunk, current_batch)
         absent(row) == ~WavPresent(source, row)
     IN /\ plan' = Append(plan, entry)
        /\ run' = [run EXCEPT
                     !.idx = run.idx + 1,
                     !.moved = IF run.dry_run THEN run.moved
                               ELSE run.moved + Len(entry.copies),
                     !.skipped = run.skipped + CountIn(chunk, absent)]
        /\ IF run.dry_run
             THEN UNCHANGED << tree, written >>
             ELSE /\ tree' = WriteChunk(tree, entry)
                  /\ written' = written \cup
                       { [run |-> nruns,
                          dir |-> << sanitise(key[1]), sanitise(key[2]) >>,
                          num |-> IF run.exact_batch # NoneStr THEN 0
                                  ELSE run.start_batch_num + run.idx,
                          shard |-> entry.shard] }
        /\ pc' = IF run.idx + 1 = Len(run.chunks) THEN "pack_groups" ELSE "pack_chunks"
  /\ UNCHANGED << source, flat, prev, treeAtStart, flatAtStart, nruns >>

\* pack(), lines 148-151: the summary; the invocation ends.
PackEnd ==
  /\ pc = "pack_groups"
  /\ run.gi = Len(run.groups)
  /\ run' = [run EXCEPT !.exit = "ok"]
  /\ pc' = "idle"
  /\ UNCHANGED << source, tree, flat, plan, prev, treeAtStart, flatAtStart,
                  written, nruns >>

\* A whole real (not dry-run) pack() invocation on output tree t, as one
\* function: the tree it leaves (lines 77-146).
RECURSIVE PackChunks(_, _, _, _, _, _, _)
PackChunks(t, src, key, chunks, idx, start_batch_num, exact_batch) ==
  IF idx >= Len(chunks) THEN t
  ELSE PackChunks(
         WriteChunk(t, ChunkEntry(src, key, chunks[idx + 1],
                                  CurrentBatch(exact_batch, start_batch_num, idx))),
         src, key, chunks, idx + 1, start_batch_num, exact_batch)

RECURSIVE PackGroups(_, _, _, _, _)
PackGroups(t, src, keys, exact_batch, max_rows) ==
  IF Len(keys) = 0 THEN t
  ELSE LET key == Head(keys)
           start == StartBatchNum(t, exact_batch, sanitise(key[1]), sanitise(key[2]))
           chunks == ChunksOf(GroupRows(src.table, key), exact_batch, max_rows)
       IN PackGroups(PackChunks(t, src, key, chunks, 0, start, exact_batch),
                     src, Tail(keys), exact_batch, max_rows)

PackAll(t, src, exact_batch, max_rows) ==
  IF PackFatal(src) THEN t
  ELSE PackGroups(TreeAfterPackBegin(t, src, FALSE), src, GroupKeys(src.table),
                  exact_batch, max_rows)

\* ----------------------------------------------------------------- unpack

RECURSIVE SortNames(_)
SortNames(S) ==
  IF S = {} THEN <<>>
  ELSE LET m == CHOOSE n \in S : \A o \in S \ {n} : StrLess(n, o)
       IN << m >> \o SortNames(S \ {m})

Reverse(s) == [i \in 1..Len(s) |-> s[Len(s) + 1 - i]]

\* meta_dir.glob("*.parquet"): the shard names in directory order, which the
\* file system leaves open; the model lists them by name, forwards or
\* backwards.
Listing(t, backwards) ==
  IF backwards THEN Reverse(SortNames(DOMAIN t.shards))
  ELSE SortNames(DOMAIN t.shards)

\* pd.concat(frames, ignore_index=True)
RECURSIVE Concat(_, _)
Concat(t, names) ==
  IF Len(names) = 0 THEN <<>>
  ELSE t.shards[names[1]] \o Concat(t, Tail(names))

\* As apply_filters, comparing speaker and audio_source case-sensitively.
apply_filters_CaseSensitive(df, speaker, audio_source, batch) ==
  LET bySpeaker ==
        IF speaker # NoneStr
          THEN SelectSeq(df, LAMBDA r : r.speaker = speaker)
          ELSE df
      bySource ==
        IF audio_source # NoneStr
          THEN SelectSeq(bySpeaker, LAMBDA r : r.audio_source = audio_source)
          ELSE bySpeaker
  IN IF batch # NoneStr
       THEN SelectSeq(bySource,
                      LAMBDA r : Contains(r.audio_path, << "/" >> \o batch \o << "/" >>))
       ELSE bySource

\* apply_filters(), lines 85-91: the rows kept (the caller exits when none is).
apply_filters(df, speaker, audio_source, batch) ==
  LET bySpeaker ==
        IF speaker # NoneStr
          THEN SelectSeq(df, LAMBDA r : Lower(r.speaker) = Lower(speaker))
          ELSE df
      bySource ==
        IF audio_source # NoneStr
          THEN SelectSeq(bySpeaker,
                         LAMBDA r : Lower(r.audio_source) = Lower(audio_source))
          ELSE bySpeaker
  IN IF batch # NoneStr
       THEN SelectSeq(bySource,
                      LAMBDA r : Contains(r.audio_path, << "/" >> \o batch \o << "/" >>))
       ELSE bySource

\* (dataset_dir / audio_path).exists(): the dataset root holds wav files
\* only at audio/<source>/<speaker>/<batch>/<file>.
FileExists(t, audio_path) ==
  LET parts == PathParts(audio_path)
  IN /\ Len(parts) = 5
     /\ parts[1] = << "a", "u", "d", "i", "o" >>
     /\ << parts[2], parts[3], parts[4], parts[5] >> \in t.files

\* f"wavs/{wav_filename}"
FlatRel(wav_filename) == << "w", "a", "v", "s", "/" >> \o wav_filename

\* unpack(), lines 108-118: the pre-flight checks, the load and the filters.
UnpackBegin(speaker, audio_source, batch, dry_run, backwards) ==
  /\ pc = "idle"
  /\ nruns' = nruns + 1
  /\ prev' = Summary
  /\ plan' = <<>>
  /\ treeAtStart' = tree
  /\ flatAtStart' = flat
  /\ LET r == [NoRun EXCEPT !.kind = "unpack", !.speaker = speaker,
                            !.audio_source = audio_source, !.batch = batch,
                            !.dry_run = dry_run, !.backwards = backwards]
         loaded == Concat(tree, Listing(tree, backwards))
         df == apply_filters(loaded, speaker, audio_source, batch)
     IN IF ~tree.metaDir \/ DOMAIN tree.shards = {}
          THEN /\ run' = [r EXCEPT !.exit = "fatal"]
               /\ pc' = "idle"
          ELSE IF Len(df) = 0
            THEN /\ run' = [r EXCEPT !.exit = "fatal", !.loaded = loaded]
                 /\ pc' = "idle"
            ELSE /\ run' = [r EXCEPT !.exit = "running", !.loaded = loaded, !.df = df]
                 /\ pc' = "unpack_copy"
  /\ UNCHANGED << source, tree, flat, written >>

\* unpack(), lines 120-144: every selected row gets its flat path, and its
\* wav is copied (or logged) when the dataset holds it.
UnpackCopy ==
  /\ pc = "unpack_copy"
  /\ LET df == run.df
         here(row) == FileExists(tree, row.audio_path)
         absent(row) == ~FileExists(tree, row.audio_path)
         found == SelectSeq(df, here)
         flat_audio_paths == [i \in 1..Len(df) |-> FlatRel(PathName(df[i].audio_path))]
         copies == [i \in 1..Len(found) |->
                      << found[i].audio_path, FlatRel(PathName(found[i].audio_path)) >>]
         entry == [group |-> <<>>, batch |-> NoneStr,
                   shard |-> << "c", "s", "v" >>, orig |-> df,
                   rows |-> [i \in 1..Len(df) |->
                               [df[i] EXCEPT !.audio_path = flat_audio_paths[i]]],
                   copies |-> copies]
     IN /\ plan' = Append(plan, entry)
        /\ run' = [run EXCEPT
                     !.flat_audio_paths = flat_audio_paths,
                     !.copied = IF run.dry_run THEN 0 ELSE Len(found),
                     !.missing = CountIn(df, absent)]
        /\ flat' = IF run.dry_run \/ Len(found) = 0 THEN flat
                   ELSE [flat EXCEPT
                           !.dir = TRUE,
                           !.wavsDir = TRUE,
                           !.wavs = flat.wavs \cup
                                      { PathName(found[i].audio_path) :
                                          i \in 1..Len(found) }]
  /\ pc' = "unpack_write"
  /\ UNCHANGED << source, tree, prev, treeAtStart, flatAtStart, written, nruns >>

\* unpack(), lines 146-161: the flat metadata.csv is written (or logged).
UnpackWrite ==
  /\ pc = "unpack_write"
  /\ LET df == [i \in 1..Len(run.df) |->
                  [run.df[i] EXCEPT !.audio_path = run.flat_audio_paths[i]]]
     IN flat' = IF run.dry_run THEN flat
                ELSE [flat EXCEPT !.dir = TRUE, !.hasCsv = TRUE, !.csv = df]
  /\ run' = [run EXCEPT !.exit = "ok"]
  /\ pc' = "idle"
  /\ UNCHANGED << source, tree, plan, prev, treeAtStart, flatAtStart, written,
                  nruns >>

\* ---------------------------------------------------------- specification

\* The filters the pipeline is run with (apply_filters is checked on its
\* own, over wider sets, under SpecFilter).
UnpackSpeakerArgs == { NoneStr }

UnpackBatchArgs == { NoneStr, BatchLabel(1) }

PackStart ==
  /\ nruns < MaxRuns
  /\ \E exact_batch \in PackBatchArgs, max_rows \in 1..MaxRowsArg,
        dry_run \in BOOLEAN :
       PackBegin(exact_batch, max_rows, dry_run)

UnpackStart ==
  /\ nruns < MaxRuns
  /\ \E speaker \in UnpackSpeakerArgs, batch \in UnpackBatchArgs,
        dry_run \in BOOLEAN, backwards \in BOOLEAN :
       UnpackBegin(speaker, NoneStr, batch, dry_run, backwards)

Next ==
  \/ PackStart
  \/ PackGroup
  \/ PackChunk
  \/ PackEnd
  \/ UnpackStart
  \/ UnpackCopy
  \/ UnpackWrite

Spec == Init /\ [][Next]_vars

\* --------------------------------------- one invocation on a populated tree

\* Flat roots that were packed before the invocation under study: one group
\* of two rows whose first wav is missing; two groups that sanitise to one
\* partition.
PriorSources ==
  { GoodSource(<< << << "a" >>, << "b" >> >>, << << "a" >>, << "b" >> >> >>, {2}),
    GoodSource(<< << << "a" >>, << "B" >> >>, << << "a" >>, << "b" >> >> >>, {1, 2}) }

\* The output trees the invocation may find: none yet, or the one an earlier
\* real pack run left (auto-numbered, one row per batch, or under a label).
PriorTrees ==
  { EmptyTree } \cup
  { PackAll(EmptyTree, s, e, 1) : s \in PriorSources, e \in PackBatchArgs }

InitRun ==
  /\ source \in Sources
  /\ tree \in PriorTrees
  /\ flat = EmptyFlat
  /\ pc = "idle"
  /\ run = NoRun
  /\ plan = <<>>
  /\ prev = NoPrev
  /\ treeAtStart = tree
  /\ flatAtStart = flat
  /\ written = {}
  /\ nruns = 0

PackOnce ==
  /\ nruns = 0
  /\ \E exact_batch \in PackBatchArgs, max_rows \in 1..MaxRowsArg,
        dry_run \in BOOLEAN :
       PackBegin(exact_batch, max_rows, dry_run)

UnpackOnce ==
  /\ nruns = 0
  /\ \E speaker \in UnpackSpeakerArgs, batch \in UnpackBatchArgs,
        dry_run \in BOOLEAN, backwards \in BOOLEAN :
       UnpackBegin(speaker, NoneStr, batch, dry_run, backwards)

NextRun ==
  \/ PackOnce
  \/ PackGroup
  \/ PackChunk
  \/ PackEnd
  \/ UnpackOnce
  \/ UnpackCopy
  \/ UnpackWrite

\* One pack or unpack invocation, on any source, against any prior tree.
SpecRun == InitRun /\ [][NextRun]_vars

\* ------------------------------------------ the filters, over wider inputs

\* Raw (audio_source, speaker) values that differ in case only, and one
\* whose speaker segment, "x", is also a batch label.
FilterKeys ==
  { << << "a" >>, << "B" >> >>,
    << << "a" >>, << "b" >> >>,
    << << "A" >>, << "b" >> >>,
    << << "a" >>, << "X" >> >>,
    << << "c" >>, << "b" >> >> }

\* --batch labels the dataset was packed with: auto-numbered, "x", or
\* "batch_0020".
FilterPackArgs == { NoneStr, << "x" >>, BatchLabel(20) }

\* The packed flat roots: every wav present, or every wav but the first.
FilterSources ==
  UNION { { GoodSource(k, have) : have \in { 1..Len(k), 2..Len(k) } } :
            k \in SeqsUpTo(FilterKeys, MaxTableLen) }

FilterTrees ==
  { PackAll(EmptyTree, s, e, 1) : s \in FilterSources, e \in FilterPackArgs }

FilterSpeakerArgs == { NoneStr, << "B" >>, << "b" >>, << "x" >> }

FilterSourceArgs == { NoneStr, << "a" >>, << "A" >> }

FilterBatchArgs == { NoneStr, << "x" >>, BatchLabel(1), BatchLabel(2) }

InitFilter ==
  /\ source \in { GoodSource(<<>>, {}) }
  /\ tree \in FilterTrees
  /\ flat = EmptyFlat
  /\ pc = "idle"
  /\ run = NoRun
  /\ plan = <<>>
  /\ prev = NoPrev
  /\ treeAtStart = tree
  /\ flatAtStart = flat
  /\ written = {}
  /\ nruns = 0

UnpackFiltered ==
  /\ nruns = 0
  /\ \E speaker \in FilterSpeakerArgs, audio_source \in FilterSourceArgs,
        batch \in FilterBatchArgs, backwards \in BOOLEAN :
       UnpackBegin(speaker, audio_source, batch, FALSE, backwards)

\* The load and the filters of one unpack invocation, under any filters, on
\* any packed dataset.
SpecFilter == InitFilter /\ [][UnpackFiltered]_vars

\* The stepwise run and the function PackAll agree.
PackAllAgrees ==
  (pc = "idle" /\ run.kind = "pack" /\ run.exit = "ok" /\ ~run.dry_run)
    => tree = PackAll(treeAtStart, source, run.exact_batch, run.max_rows)


\* ------------------------------------------------------------------ claims

\* Every shard written so far was written by an auto-batching run.
AutoOnly == \A w \in written : w.num > 0

\* The highest batch number given to a partition by the invocations before
\* invocation n.
HighestAssigned(dir, n) ==
  MaxOf({ w.num : w \in { v \in written : v.dir = dir /\ v.run < n } })

\* C1: across non-dry-run auto-batching pack invocations against one output
\* root, batch numbers are never reused or skipped: the first label an
\* invocation gives a partition is batch_{N+1}, N the highest number earlier
\* invocations gave it (1 on the first run), and no shard of an earlier
\* invocation is written again, whichever wavs are present.
C1_BatchNumbersNeverReused ==
  (run.kind = "pack" /\ ~run.dry_run /\ run.exact_batch = NoneStr /\ AutoOnly) =>
    /\ \A i \in 1..Len(run.scans) :
         (\A j \in 1..(i - 1) : run.scans[j].dir # run.scans[i].dir)
           => run.scans[i].start = HighestAssigned(run.scans[i].dir, nruns) + 1
    /\ \A w1 \in written, w2 \in written : w1.shard = w2.shard => w1.run = w2.run

\* What the round trip keeps of a row: speaker, audio_source, file name.
Kept(r) == << r.speaker, r.audio_source, PathName(r.audio_path) >>

Occurrences(t, v) == Cardinality({ i \in 1..Len(t) : Kept(t[i]) = v })

SameRows(t1, t2) ==
  /\ Len(t1) = Len(t2)
  /\ \A i \in 1..Len(t1) : Occurrences(t1, Kept(t1[i])) = Occurrences(t2, Kept(t1[i]))

\* A real unfiltered unpack has just ended, right after a real pack into the
\* empty output root.
RoundTripDone ==
  /\ pc = "idle" /\ nruns = 2
  /\ run.kind = "unpack" /\ run.exit = "ok" /\ ~run.dry_run
  /\ run.speaker = NoneStr /\ run.audio_source = NoneStr /\ run.batch = NoneStr
  /\ prev.kind = "pack" /\ prev.exit = "ok" /\ ~prev.dry_run

\* C2: packing a flat table into an empty root, then unpacking with no
\* filters, yields a flat table with the same number of rows and the same
\* multiset of (speaker, audio_source, file name), also when two raw values
\* sanitise to one segment.
C2_RoundTrip ==
  RoundTripDone => flat.hasCsv /\ SameRows(flat.csv, source.table)

\* A real invocation has just ended, right after a dry run of the same
\* invocation on the same roots.
DryThenReal ==
  /\ pc = "idle" /\ run.kind # "none" /\ ~run.dry_run
  /\ prev.dry_run /\ prev.args = ArgsOf(run)

\* C3: a dry run computes the plan of the real run on the same inputs: the
\* same groups, chunks, batch labels, copy pairs, shard names and row counts.
C3_DryRunSamePlan ==
  DryThenReal => (prev.exit = run.exit /\ prev.plan = plan)

Unchanged == tree = treeAtStart /\ flat = flatAtStart

\* C4: every fatal error aborts before any mutation: pack with metadata.csv,
\* a required column or wavs/ missing, and unpack with metadata/ missing, no
\* shard, or no row left by the filters, end fatally with both output trees
\* as they were.
C4_FatalBeforeMutation ==
  /\ run.exit = "fatal" => Unchanged
  /\ (run.kind = "pack" /\ (~source.csv \/ ~source.cols \/ ~source.wavsDir))
       => run.exit = "fatal"
  /\ (run.kind = "unpack" /\ (~treeAtStart.metaDir \/ DOMAIN treeAtStart.shards = {}))
       => run.exit = "fatal"
  /\ (run.kind = "unpack" /\ run.exit # "fatal") => Len(run.df) > 0

\* An unpack whose filters leave no row of a loaded, non-empty table.
C4_Witness ==
  /\ run.kind = "unpack" /\ run.exit = "fatal"
  /\ Len(run.loaded) > 0
  /\ tree.files # {}

\* C5: a dry run of pack or unpack mutates nothing: the partitioned root and
\* the flat output root stay as they were when the run began.
C5_DryRunNoMutation == run.dry_run => Unchanged

\* A dry pack that ended after logging copies, and a shard, it did not make.
C5_Witness ==
  /\ pc = "idle" /\ run.kind = "pack" /\ run.dry_run /\ run.exit = "ok"
  /\ \E k \in 1..Len(plan) :
       /\ Len(plan[k].copies) > 0
       /\ plan[k].shard \notin DOMAIN tree.shards

\* Equal up to the case of the letters.
SameLetter(c, d) ==
  \/ c = d
  \/ \E i \in 1..Len(Uppers) : {c, d} = {Uppers[i], Lowers[i]}

CaseInsensitiveEq(s, t) ==
  Len(s) = Len(t) /\ \A i \in 1..Len(s) : SameLetter(s[i], t[i])

\* unpack has applied a speaker and an audio_source filter, and no batch
\* filter.
BothFilters ==
  /\ run.kind = "unpack"
  /\ run.speaker # NoneStr /\ run.audio_source # NoneStr /\ run.batch = NoneStr
  /\ Len(run.loaded) > 0

\* C6: with speaker=S and audio_source=A the filters select exactly the rows
\* whose speaker equals S and whose audio_source equals A, case-insensitively,
\* and only rows that speaker=S alone selects.
C6_FilterAnd ==
  BothFilters =>
    /\ run.df = SelectSeq(run.loaded,
                          LAMBDA r : /\ CaseInsensitiveEq(r.speaker, run.speaker)
                                     /\ CaseInsensitiveEq(r.audio_source,
                                                          run.audio_source))
    /\ LET alone == apply_filters(run.loaded, run.speaker, NoneStr, NoneStr)
       IN \A i \in 1..Len(run.df) : \E j \in 1..Len(alone) : alone[j] = run.df[i]

\* Both filters kept a row that differs from them in case, and dropped one.
C6_Witness ==
  /\ BothFilters
  /\ Len(run.df) > 0 /\ Len(run.df) < Len(run.loaded)
  /\ \E i \in 1..Len(run.df) :
       run.df[i].speaker # run.speaker /\ run.df[i].audio_source # run.audio_source

\* The batch-label segment of a partitioned audio_path
\* audio/<source>/<speaker>/<batch>/<file> ("" for a path of another form).
BatchSegment(audio_path) ==
  LET parts == PathParts(audio_path)
  IN IF Len(parts) = 5 /\ parts[1] = << "a", "u", "d", "i", "o" >>
       THEN parts[4] ELSE NoneStr

\* C7: the batch filter selects exactly the rows whose batch-label segment
\* equals the label: never a row of batch_0020 for batch_0002, never a row
\* whose source or speaker segment, not its batch segment, equals the label.
C7_BatchFilterExact ==
  (run.kind = "unpack" /\ run.batch # NoneStr
     /\ run.speaker = NoneStr /\ run.audio_source = NoneStr) =>
    run.df = SelectSeq(run.loaded,
                       LAMBDA r : BatchSegment(r.audio_path) = run.batch)

RECURSIVE Flatten(_)
Flatten(seqs) == IF Len(seqs) = 0 THEN <<>> ELSE Head(seqs) \o Flatten(Tail(seqs))

\* pack has chunked a group.
Chunked == run.kind = "pack" /\ run.gi > 0

RECURSIVE TreeAfter(_)
TreeAfter(k) ==
  IF k = 0
    THEN IF run.dry_run THEN treeAtStart ELSE [treeAtStart EXCEPT !.metaDir = TRUE]
    ELSE IF run.dry_run THEN treeAtStart ELSE WriteChunk(TreeAfter(k - 1), plan[k])

C10_MissingWavKeepsRow ==
  run.kind = "pack" =>
    /\ \A k \in 1..Len(plan) :
         LET e == plan[k] IN
         /\ Len(e.rows) = Len(e.orig)
         /\ \A i \in 1..Len(e.orig) :
              /\ e.rows[i].speaker = e.orig[i].speaker
              /\ e.rows[i].audio_source = e.orig[i].audio_source
              /\ IF PathName(e.orig[i].audio_path) \in source.wavs
                   THEN /\ PathParts(e.rows[i].audio_path) =
                             << << "a", "u", "d", "i", "o" >>,
                                sanitise(e.orig[i].audio_source),
                                sanitise(e.orig[i].speaker),
                                e.batch,
                                PathName(e.orig[i].audio_path) >>
                        /\ ~run.dry_run => FileExists(tree, e.rows[i].audio_path)
                   ELSE e.rows[i].audio_path = e.orig[i].audio_path
    /\ run.skipped =
         Len(SelectSeq(Flatten([k \in 1..Len(plan) |-> plan[k].orig]),
                       LAMBDA r : PathName(r.audio_path) \notin source.wavs))
    /\ ~run.dry_run =>
         /\ run.moved + run.skipped =
              Len(Flatten([k \in 1..Len(plan) |-> plan[k].rows]))
         /\ Len(plan) > 0 =>
              /\ plan[Len(plan)].shard \in DOMAIN tree.shards
              /\ tree.shards[plan[Len(plan)].shard] = plan[Len(plan)].rows

\* A real run wrote a chunk with a row whose wav is missing and a row whose
\* wav it copied.
C10_Witness ==
  /\ run.kind = "pack" /\ ~run.dry_run /\ run.exit = "ok"
  /\ run.moved > 0 /\ run.skipped > 0
  /\ \E k \in 1..Len(plan) :
       \E i \in 1..Len(plan[k].orig), j \in 1..Len(plan[k].orig) :
         /\ plan[k].rows[i].audio_path = plan[k].orig[i].audio_path
         /\ plan[k].rows[j].audio_path # plan[k].orig[j].audio_path

=============================================================================
